---------------------------- MODULE Spec2Model ----------------------------
(***************************************************************************)
(* Hackflight attitude-control core: the Stabilize PID controller          *)
(* (src/include/stabilize.hpp) and the quad-X Mixer                        *)
(* (src/include/mixer.hpp), modelled as one state machine.                 *)
(*                                                                         *)
(* Arrays keep the source's 0-based indices and are functions over 0..n-1. *)
(* Float gains are rationals [n |-> numerator, d |-> denominator]; a float *)
(* expression converted to an integer truncates toward zero, as the C++    *)
(* conversion does.  For the gains used (0.125, 0.1f, 0.05f, 0.01f and     *)
(* dyadic values) and operands below 2^24 the truncated float product      *)
(* equals the truncated rational product.                                  *)
(***************************************************************************)
EXTENDS Integers, Sequences, FiniteSets, TLC

VARIABLES
    axisPID,        \* Stabilize::axisPID[3]       (int16_t)
    lastGyro,       \* Stabilize::lastGyro[2]      (int16_t)
    delta1,         \* Stabilize::delta1[2]        (int32_t)
    delta2,         \* Stabilize::delta2[2]        (int32_t)
    errorGyroI,     \* Stabilize::errorGyroI[3]    (int32_t)
    errorAngleI,    \* Stabilize::errorAngleI[2]   (int32_t)
    pidConfig,      \* Stabilize::pidConfig  (copy made by init)
    imuConfig,      \* Stabilize::imuConfig  (copy made by init)
    motorsDisarmed, \* Mixer::motorsDisarmed[4]    (int16_t, set by MSP)
    pwmConfig,      \* Mixer::pwmConfig      (copy made by init)
    call,           \* the most recent operation, its arguments and locals
    writes,         \* board->writeMotor calls issued by the most recent operation
    ticks,          \* number of Stabilize::update calls so far
    locals,         \* locals of the most recent Stabilize::update
    tableSet,       \* TRUE once MSP has stored a value in motorsDisarmed
    pc,             \* position inside a Mixer::update that runs line by line
    samples         \* gyroADC of the last four Stabilize::update calls, newest first

vars == <<axisPID, lastGyro, delta1, delta2, errorGyroI, errorAngleI,
          pidConfig, imuConfig, motorsDisarmed, pwmConfig, call, writes, ticks,
          locals, tableSet, pc, samples>>

stabVars == <<axisPID, lastGyro, delta1, delta2, errorGyroI, errorAngleI,
              pidConfig, imuConfig>>

mixerVars == <<motorsDisarmed, pwmConfig>>

-----------------------------------------------------------------------------
(* Bounds of the model *)

MaxTicks == 4

\* Stabilize::update calls in the line-by-line specification of Mixer::update.
StepTicks == 1

\* Stabilize::update calls in the specification of the stick blend.
BlendTicks == 3

-----------------------------------------------------------------------------
(* Index constants *)

AXIS_ROLL == 0
AXIS_PITCH == 1
AXIS_YAW == 2

DEMAND_ROLL == 0
DEMAND_PITCH == 1
DEMAND_YAW == 2
DEMAND_THROTTLE == 3

Axes == 0..2
LevelAxes == 0..1
Motors == 0..3

Arr2(a, b) == [i \in 0..1 |-> IF i = 0 THEN a ELSE b]
Arr3(a, b, c) == [i \in 0..2 |-> CASE i = 0 -> a [] i = 1 -> b [] OTHER -> c]
Arr4(a, b, c, e) ==
    [i \in 0..3 |-> CASE i = 0 -> a [] i = 1 -> b [] i = 2 -> c [] OTHER -> e]

-----------------------------------------------------------------------------
(* Machine arithmetic *)

Abs(x) == IF x < 0 THEN -x ELSE x

Max2(a, b) == IF a > b THEN a ELSE b

\* Conversion of an int to int16_t (two's complement narrowing).
ToInt16(x) == ((x + 32768) % 65536) - 32768

\* Conversion of an int to uint16_t (the parameter type of writeMotor).
ToUint16(x) == x % 65536

\* int32_t values are plain integers here: the model checker's own integers
\* are 32 bits wide and it stops with an overflow error rather than wrap, so a
\* completed run shows that no int32_t expression of the model overflowed.

InInt16(x) == x >= -32768 /\ x <= 32767

\* C integer division and float-to-integer conversion: truncation toward zero
\* of n/d, d > 0.
TruncDiv(n, d) == IF n >= 0 THEN n \div d ELSE -((-n) \div d)

\* x >> k on a signed int32_t (arithmetic shift: rounds toward minus infinity).
ShiftRight6(x) == x \div 64

\* constrain(val, lo, hi) of common.hpp.
constrain(val, lo, hi) == IF val < lo THEN lo ELSE IF val > hi THEN hi ELSE val


-----------------------------------------------------------------------------
(* Configuration *)

Gain(n, d) == [n |-> n, d |-> d]

\* The PID gains VrepSimBoard::getConfig sets, with zero software trim.
SimPidConfig ==
    [levelP         |-> Gain(1, 10),
     ratePitchrollP |-> Gain(1, 8),
     ratePitchrollI |-> Gain(1, 20),
     ratePitchrollD |-> Gain(1, 100),
     yawP           |-> Gain(1, 10),
     yawI           |-> Gain(1, 20),
     softwareTrim   |-> Arr3(0, 0, 0)]

\* A second vehicle: dyadic gains and a nonzero trim on every axis.
TrimmedPidConfig ==
    [levelP         |-> Gain(1, 2),
     ratePitchrollP |-> Gain(2, 1),
     ratePitchrollI |-> Gain(1, 2),
     ratePitchrollD |-> Gain(1, 4),
     yawP           |-> Gain(1, 1),
     yawI           |-> Gain(1, 2),
     softwareTrim   |-> Arr3(10, -20, 150)]

PidConfigs == {SimPidConfig, TrimmedPidConfig}

\* The ImuConfig handed to Stabilize::init.
ImuConfigs == {[maxAngleInclination |-> 500]}

\* The PwmConfig handed to Mixer::init.
PwmConfigs == {[min |-> 1000, max |-> 2000]}

-----------------------------------------------------------------------------
(* Inputs *)

\* eulerAngles are floats; the model carries them as numerators over EulerDen.
EulerDen == 4

ZeroInput ==
    [rcCommand   |-> Arr4(0, 0, 0, 0),
     gyroADC     |-> Arr3(0, 0, 0),
     eulerAngles |-> Arr3(0, 0, 0)]

\* Sticks and rates inside the windup guards (gyro magnitude at most 640,
\* yaw stick at most 100).
CruiseInput ==
    [rcCommand   |-> Arr4(200, -300, 80, 1500),
     gyroADC     |-> Arr3(-600, 640, 100),
     eulerAngles |-> Arr3(41, -83, 7)]

\* Rates beyond 640 on roll and pitch, yaw stick beyond 100 with a calm yaw rate.
GustInput ==
    [rcCommand   |-> Arr4(-500, 100, 150, 1500),
     gyroADC     |-> Arr3(700, -641, 0),
     eulerAngles |-> Arr3(-120, 36, 0)]

\* Values at the ends of the int16_t range.
ExtremeInput ==
    [rcCommand   |-> Arr4(32767, -32768, 9000, 2000),
     gyroADC     |-> Arr3(-640, 32760, -32768),
     eulerAngles |-> Arr3(-4000, 4000, 0)]

StabilizeInputs == {ZeroInput, CruiseInput, GustInput, ExtremeInput}

\* Roll and pitch sticks centred while the craft is tilted and turning slowly.
HoverInput ==
    [rcCommand   |-> Arr4(0, 0, 0, 1500),
     gyroADC     |-> Arr3(50, -30, 20),
     eulerAngles |-> Arr3(50, -29, 0)]

\* Roll stick at 500 with rates inside the windup guards.
FullStickInput ==
    [rcCommand   |-> Arr4(500, -120, 60, 1500),
     gyroADC     |-> Arr3(300, -200, 40),
     eulerAngles |-> Arr3(20, 8, 0)]

BlendInputs == StabilizeInputs \cup {HoverInput, FullStickInput}

-----------------------------------------------------------------------------
(* Stabilize *)

\* computeITermGyro, line 84: error, a float expression converted to int32_t.
GyroError(rateP, rcCommand, gyroADC, axis) ==
    TruncDiv(rcCommand[axis] * rateP.n - gyroADC[axis] * rateP.d, rateP.d)

\* Faulty variant: the guard without its yaw-stick condition.
WindupGuardMissesYawStick(rcCommand, gyroADC, axis) ==
    Abs(gyroADC[axis]) > 640

\* Faulty variant: the guard compares the signed rate and the signed stick.
WindupGuardSigned(rcCommand, gyroADC, axis) ==
    \/ gyroADC[axis] > 640
    \/ (axis = AXIS_YAW /\ rcCommand[axis] > 100)

\* computeITermGyro, line 89: the windup guard.
WindupGuard(rcCommand, gyroADC, axis) ==
    \/ Abs(gyroADC[axis]) > 640
    \/ (axis = AXIS_YAW /\ Abs(rcCommand[axis]) > 100)

\* Faulty variant: the rate integral accumulated without the clamp.
NextErrorGyroIUnclamped(integral, rateP, rcCommand, gyroADC, axis) ==
    IF WindupGuard(rcCommand, gyroADC, axis)
    THEN 0
    ELSE integral + GyroError(rateP, rcCommand, gyroADC, axis)

\* computeITermGyro, lines 84-90: the new errorGyroI[axis].
NextErrorGyroI(integral, rateP, rcCommand, gyroADC, axis) ==
    IF WindupGuard(rcCommand, gyroADC, axis)
    THEN 0
    ELSE constrain(integral + GyroError(rateP, rcCommand, gyroADC, axis),
                   -16000, 16000)

\* computeITermGyro, line 92: the value returned for the new integral.
ITermGyroOf(integral, rateI) ==
    ShiftRight6(TruncDiv(integral * rateI.n, rateI.d))

\* Faulty variant: the measured rate is not subtracted from the P term.
computePidNoRateDamping(rateP, PTerm, ITerm, DTerm, gyroADC, axis, cfg) ==
    ToInt16(PTerm + ITerm - DTerm + cfg.softwareTrim[axis])

\* computePid, lines 97-98; the result is returned as int16_t.
computePid(rateP, PTerm, ITerm, DTerm, gyroADC, axis, cfg) ==
    LET P == (TruncDiv(PTerm * rateP.d - gyroADC[axis] * rateP.n, rateP.d))
    IN  ToInt16(P + ITerm - DTerm + cfg.softwareTrim[axis])

\* computeLevelPid, lines 106-109: the angle error.
ErrorAngle(rcCommand, eulerAngles, axis, imu) ==
    LET target == constrain(2 * rcCommand[axis],
                            -imu.maxAngleInclination, imu.maxAngleInclination)
    IN  (TruncDiv(target * EulerDen - 10 * eulerAngles[axis], EulerDen))

\* computeLevelPid, line 114: the new errorAngleI[axis].
NextErrorAngleI(integral, errorAngle) ==
    constrain(integral + errorAngle, -10000, 10000)

\* computeLevelPid, lines 116-117.
StickProp(rcCommand) ==
    Max2(Abs(rcCommand[DEMAND_PITCH]), Abs(rcCommand[DEMAND_ROLL]))

\* Faulty variant: delta1 stored before delta2 is shifted, so that delta2 takes
\* this tick's delta.
computeLevelPidShiftsLate(st, rcCommand, gyroADC, eulerAngles, axis, cfg, imu) ==
    LET newGyroI   == NextErrorGyroI(st.errorGyroI, cfg.ratePitchrollP,
                                     rcCommand, gyroADC, axis)
        ITermGyro  == ITermGyroOf(newGyroI, cfg.ratePitchrollI)
        errorAngle == ErrorAngle(rcCommand, eulerAngles, axis, imu)
        PTermAccel == (TruncDiv(errorAngle * cfg.levelP.n, cfg.levelP.d))
        newAngleI  == NextErrorAngleI(st.errorAngleI, errorAngle)
        prop       == StickProp(rcCommand)
        PTerm      == TruncDiv(PTermAccel * (500 - prop) + rcCommand[axis] * prop,
                                   500)
        ITerm      == TruncDiv(ITermGyro * prop, 500)
        delta      == gyroADC[axis] - st.lastGyro
        deltaSum   == (st.delta1 + st.delta2 + delta)
        DTerm      == (TruncDiv(deltaSum * cfg.ratePitchrollD.n,
                                       cfg.ratePitchrollD.d))
    IN  [pid         |-> computePid(cfg.ratePitchrollP, PTerm, ITerm, DTerm,
                                    gyroADC, axis, cfg),
         lastGyro    |-> gyroADC[axis],
         delta1      |-> delta,
         delta2      |-> delta,
         errorGyroI  |-> newGyroI,
         errorAngleI |-> newAngleI,
         PTerm       |-> PTerm,
         ITerm       |-> ITerm,
         DTerm       |-> DTerm,
         prop        |-> prop,
         errorAngle  |-> errorAngle,
         PTermAccel  |-> PTermAccel,
         ITermGyro   |-> ITermGyro,
         deltaSum    |-> deltaSum]

\* Faulty variant: the two weights of the P-term blend exchanged.
computeLevelPidBlendSwapped(st, rcCommand, gyroADC, eulerAngles, axis, cfg, imu) ==
    LET newGyroI   == NextErrorGyroI(st.errorGyroI, cfg.ratePitchrollP,
                                     rcCommand, gyroADC, axis)
        ITermGyro  == ITermGyroOf(newGyroI, cfg.ratePitchrollI)
        errorAngle == ErrorAngle(rcCommand, eulerAngles, axis, imu)
        PTermAccel == (TruncDiv(errorAngle * cfg.levelP.n, cfg.levelP.d))
        newAngleI  == NextErrorAngleI(st.errorAngleI, errorAngle)
        prop       == StickProp(rcCommand)
        PTerm      == TruncDiv(PTermAccel * prop + rcCommand[axis] * (500 - prop),
                                   500)
        ITerm      == TruncDiv(ITermGyro * prop, 500)
        delta      == gyroADC[axis] - st.lastGyro
        deltaSum   == (st.delta1 + st.delta2 + delta)
        DTerm      == (TruncDiv(deltaSum * cfg.ratePitchrollD.n,
                                       cfg.ratePitchrollD.d))
    IN  [pid         |-> computePid(cfg.ratePitchrollP, PTerm, ITerm, DTerm,
                                    gyroADC, axis, cfg),
         lastGyro    |-> gyroADC[axis],
         delta1      |-> delta,
         delta2      |-> st.delta1,
         errorGyroI  |-> newGyroI,
         errorAngleI |-> newAngleI,
         PTerm       |-> PTerm,
         ITerm       |-> ITerm,
         DTerm       |-> DTerm,
         prop        |-> prop,
         errorAngle  |-> errorAngle,
         PTermAccel  |-> PTermAccel,
         ITermGyro   |-> ITermGyro,
         deltaSum    |-> deltaSum]

\* Faulty variant: the angle integral fed into the P term, as an angle I term.
computeLevelPidUsesAngleI(st, rcCommand, gyroADC, eulerAngles, axis, cfg, imu) ==
    LET newGyroI   == NextErrorGyroI(st.errorGyroI, cfg.ratePitchrollP,
                                     rcCommand, gyroADC, axis)
        ITermGyro  == ITermGyroOf(newGyroI, cfg.ratePitchrollI)
        errorAngle == ErrorAngle(rcCommand, eulerAngles, axis, imu)
        newAngleI  == NextErrorAngleI(st.errorAngleI, errorAngle)
        PTermAccel == (TruncDiv(errorAngle * cfg.levelP.n, cfg.levelP.d))
                      + ShiftRight6(newAngleI)
        prop       == StickProp(rcCommand)
        PTerm      == TruncDiv(PTermAccel * (500 - prop) + rcCommand[axis] * prop,
                                   500)
        ITerm      == TruncDiv(ITermGyro * prop, 500)
        delta      == gyroADC[axis] - st.lastGyro
        deltaSum   == (st.delta1 + st.delta2 + delta)
        DTerm      == (TruncDiv(deltaSum * cfg.ratePitchrollD.n,
                                       cfg.ratePitchrollD.d))
    IN  [pid         |-> computePid(cfg.ratePitchrollP, PTerm, ITerm, DTerm,
                                    gyroADC, axis, cfg),
         lastGyro    |-> gyroADC[axis],
         delta1      |-> delta,
         delta2      |-> st.delta1,
         errorGyroI  |-> newGyroI,
         errorAngleI |-> newAngleI,
         PTerm       |-> PTerm,
         ITerm       |-> ITerm,
         DTerm       |-> DTerm,
         prop        |-> prop,
         errorAngle  |-> errorAngle,
         PTermAccel  |-> PTermAccel,
         ITermGyro   |-> ITermGyro,
         deltaSum    |-> deltaSum]

\* computeLevelPid for one axis: the returned correction and the new state of
\* that axis.  st is [lastGyro, delta1, delta2, errorGyroI, errorAngleI].
computeLevelPid(st, rcCommand, gyroADC, eulerAngles, axis, cfg, imu) ==
    LET newGyroI   == NextErrorGyroI(st.errorGyroI, cfg.ratePitchrollP,
                                     rcCommand, gyroADC, axis)
        ITermGyro  == ITermGyroOf(newGyroI, cfg.ratePitchrollI)
        errorAngle == ErrorAngle(rcCommand, eulerAngles, axis, imu)
        PTermAccel == (TruncDiv(errorAngle * cfg.levelP.n, cfg.levelP.d))
        newAngleI  == NextErrorAngleI(st.errorAngleI, errorAngle)
        prop       == StickProp(rcCommand)
        PTerm      == TruncDiv(PTermAccel * (500 - prop) + rcCommand[axis] * prop,
                                   500)
        ITerm      == TruncDiv(ITermGyro * prop, 500)
        delta      == gyroADC[axis] - st.lastGyro
        deltaSum   == (st.delta1 + st.delta2 + delta)
        DTerm      == (TruncDiv(deltaSum * cfg.ratePitchrollD.n,
                                       cfg.ratePitchrollD.d))
    IN  [pid         |-> computePid(cfg.ratePitchrollP, PTerm, ITerm, DTerm,
                                    gyroADC, axis, cfg),
         lastGyro    |-> gyroADC[axis],
         delta1      |-> delta,
         delta2      |-> st.delta1,
         errorGyroI  |-> newGyroI,
         errorAngleI |-> newAngleI,
         PTerm       |-> PTerm,
         ITerm       |-> ITerm,
         DTerm       |-> DTerm,
         prop        |-> prop,
         errorAngle  |-> errorAngle,
         PTermAccel  |-> PTermAccel,
         ITermGyro   |-> ITermGyro,
         deltaSum    |-> deltaSum]

AxisState(axis) ==
    [lastGyro    |-> lastGyro[axis],
     delta1      |-> delta1[axis],
     delta2      |-> delta2[axis],
     errorGyroI  |-> errorGyroI[axis],
     errorAngleI |-> errorAngleI[axis]]

\* Faulty variant: the yaw correction without its jump clamp.
YawPidUnclamped(newGyroI, rcCommand, gyroADC, cfg) ==
    LET ITermGyroYaw == ITermGyroOf(newGyroI, cfg.yawI)
        raw   == computePid(cfg.yawP, rcCommand[AXIS_YAW], ITermGyroYaw, 0,
                            gyroADC, AXIS_YAW, cfg)
    IN  [raw |-> raw,
         pid |-> raw,
         ITermGyro |-> ITermGyroYaw]

\* update, lines 139-144: the yaw correction for the new yaw integral.
YawPid(newGyroI, rcCommand, gyroADC, cfg) ==
    LET ITermGyroYaw == ITermGyroOf(newGyroI, cfg.yawI)
        raw   == computePid(cfg.yawP, rcCommand[AXIS_YAW], ITermGyroYaw, 0,
                            gyroADC, AXIS_YAW, cfg)
        bound == 100 + Abs(rcCommand[DEMAND_YAW])
    IN  [raw |-> raw,
         pid |-> ToInt16(constrain(raw, -bound, bound)),
         ITermGyro |-> ITermGyroYaw]

-----------------------------------------------------------------------------
(* Mixer *)

\* Faulty variant: the throttle coefficient of the left front motor mistyped.
mixerQuadXThrottleSlip ==
    [i \in Motors |->
        CASE i = 0 -> [throttle |-> 1, roll |-> -1, pitch |-> 1,  yaw |-> -1]
          [] i = 1 -> [throttle |-> 1, roll |-> -1, pitch |-> -1, yaw |-> 1]
          [] i = 2 -> [throttle |-> 1, roll |-> 1,  pitch |-> 1,  yaw |-> 1]
          [] OTHER -> [throttle |-> -1, roll |-> 1, pitch |-> -1, yaw |-> -1]]

\* Mixer::init, lines 61-64: the quad-X table.
mixerQuadX ==
    [i \in Motors |->
        CASE i = 0 -> [throttle |-> 1, roll |-> -1, pitch |-> 1,  yaw |-> -1]
          [] i = 1 -> [throttle |-> 1, roll |-> -1, pitch |-> -1, yaw |-> 1]
          [] i = 2 -> [throttle |-> 1, roll |-> 1,  pitch |-> 1,  yaw |-> 1]
          [] OTHER -> [throttle |-> 1, roll |-> 1,  pitch |-> -1, yaw |-> -1]]

\* update, lines 82-85: the float sum for motor i (exact: all operands and
\* partial sums are integers below 2^24).
MixSum(i, throttle, pid) ==
    throttle * mixerQuadX[i].throttle
    + pid[AXIS_PITCH] * mixerQuadX[i].pitch
    + pid[AXIS_ROLL] * mixerQuadX[i].roll
    - pid[AXIS_YAW] * mixerQuadX[i].yaw

\* update, line 81: (int16_t) of the float sum.  Outside the int16_t range the
\* conversion is undefined; builds either narrow the 32-bit result or saturate.
Int16OfFloat(x) ==
    IF InInt16(x)
    THEN {x}
    ELSE {ToInt16(x), IF x > 0 THEN 32767 ELSE -32768}

\* update, lines 90-94.
MaxMotor(motors) ==
    CHOOSE m \in {motors[i] : i \in Motors} : \A i \in Motors : motors[i] <= m

\* Faulty variant: no redistribution, each motor is clamped on its own.
RedistributeNothing(motor, maxMotor, pwm) == motor

\* update, lines 99-101: saturation redistribution, in int16_t.
Redistribute(motor, maxMotor, pwm) ==
    IF maxMotor > pwm.max
    THEN ToInt16(motor - (maxMotor - pwm.max))
    ELSE motor

\* Faulty variant: the hard clamp left out.
FinalMotorUnclamped(motors, i, armed, down, disarmed, pwm) ==
    LET shifted == Redistribute(motors[i], MaxMotor(motors), pwm)
        idled   == IF down THEN ToInt16(pwm.min) ELSE shifted
    IN  IF ~armed THEN disarmed[i] ELSE idled

\* Faulty variant: the stick-down override left out.
FinalMotorIgnoresStickDown(motors, i, armed, down, disarmed, pwm) ==
    LET shifted == Redistribute(motors[i], MaxMotor(motors), pwm)
        clamped == ToInt16(constrain(shifted, pwm.min, pwm.max))
    IN  IF ~armed THEN disarmed[i] ELSE clamped

\* Faulty variant: the stick-down override applied after the disarm override.
FinalMotorStickDownLast(motors, i, armed, down, disarmed, pwm) ==
    LET shifted  == Redistribute(motors[i], MaxMotor(motors), pwm)
        clamped  == ToInt16(constrain(shifted, pwm.min, pwm.max))
        released == IF ~armed THEN disarmed[i] ELSE clamped
    IN  IF down THEN ToInt16(pwm.min) ELSE released

\* Faulty variant: the hard clamp applied after the two overrides.
FinalMotorClampsLast(motors, i, armed, down, disarmed, pwm) ==
    LET shifted  == Redistribute(motors[i], MaxMotor(motors), pwm)
        idled    == IF down THEN ToInt16(pwm.min) ELSE shifted
        released == IF ~armed THEN disarmed[i] ELSE idled
    IN  ToInt16(constrain(released, pwm.min, pwm.max))

\* update, lines 96-114: the final value of motor i.
FinalMotor(motors, i, armed, down, disarmed, pwm) ==
    LET shifted == Redistribute(motors[i], MaxMotor(motors), pwm)
        clamped == ToInt16(constrain(shifted, pwm.min, pwm.max))
        idled   == IF down THEN ToInt16(pwm.min) ELSE clamped
    IN  IF ~armed THEN disarmed[i] ELSE idled

\* update, lines 116-118: the four writeMotor(uint8_t, uint16_t) calls.
MotorWrites(final) ==
    [k \in 1..4 |-> <<k - 1, ToUint16(final[k - 1])>>]

-----------------------------------------------------------------------------
(* Inputs of the mixer and of the MSP link *)

\* rc->command[DEMAND_THROTTLE] as Mixer::update finds it.
Throttles == {1500, 1900, 2100}

\* Stabilize::init leaves axisPID unset: until the first update it holds
\* whatever the memory held.
UnsetAxisPID ==
    {Arr3(0, 0, 0), Arr3(-100, 100, 100), Arr3(0, 9000, 9000),
     Arr3(32767, 32767, -32768)}

MspMotors == {2}
MspValues == {0, 1500}

-----------------------------------------------------------------------------
(* The state machine *)

\* The Stabilize fields an operation can change, as they are now.
Fields ==
    [axisPID     |-> axisPID,
     lastGyro    |-> lastGyro,
     delta1      |-> delta1,
     delta2      |-> delta2,
     errorGyroI  |-> errorGyroI,
     errorAngleI |-> errorAngleI]

NoFields ==
    [axisPID     |-> Arr3(0, 0, 0),
     lastGyro    |-> Arr2(0, 0),
     delta1      |-> Arr2(0, 0),
     delta2      |-> Arr2(0, 0),
     errorGyroI  |-> Arr3(0, 0, 0),
     errorAngleI |-> Arr2(0, 0)]

\* The record of a call: the operation, its arguments, the raw motors[] of a
\* mixer call, whether resetIntegral ran just before, and the Stabilize fields
\* the operation found (pre).
Call(op, in, armed, down, throttle, motors, afterReset, pre) ==
    [op |-> op, in |-> in, armed |-> armed, down |-> down,
     throttle |-> throttle, motors |-> motors, afterReset |-> afterReset,
     pre |-> pre]

PlainCall(op, pre) ==
    Call(op, ZeroInput, FALSE, FALSE, 0, Arr4(0, 0, 0, 0), FALSE, pre)

\* The locals of one Stabilize::update: those of computeLevelPid for roll and
\* pitch, the yaw rate-integral term and the yaw correction before its clamp.
Locals(roll, pitch, yaw) ==
    [prop       |-> roll.prop,
     errorAngle |-> Arr2(roll.errorAngle, pitch.errorAngle),
     PTermAccel |-> Arr2(roll.PTermAccel, pitch.PTermAccel),
     ITermGyro  |-> Arr3(roll.ITermGyro, pitch.ITermGyro, yaw.ITermGyro),
     PTerm      |-> Arr2(roll.PTerm, pitch.PTerm),
     ITerm      |-> Arr2(roll.ITerm, pitch.ITerm),
     DTerm      |-> Arr2(roll.DTerm, pitch.DTerm),
     deltaSum   |-> Arr2(roll.deltaSum, pitch.deltaSum),
     yawRaw     |-> yaw.raw]

NoLocals ==
    [prop       |-> 0,
     errorAngle |-> Arr2(0, 0),
     PTermAccel |-> Arr2(0, 0),
     ITermGyro  |-> Arr3(0, 0, 0),
     PTerm      |-> Arr2(0, 0),
     ITerm      |-> Arr2(0, 0),
     DTerm      |-> Arr2(0, 0),
     deltaSum   |-> Arr2(0, 0),
     yawRaw     |-> 0]

\* Before the first update no gyro sample has been seen: the slots count as 0,
\* the value init gives lastGyro.
NoSamples == [k \in 1..4 |-> Arr3(0, 0, 0)]

\* No Mixer::update is in progress.
Idle == [loop |-> "idle", i |-> 0, maxMotor |-> 0]

\* Faulty variant: the loop that zeroes the gyro history covers roll only, so
\* the pitch history holds what memory held.
StabilizeInitZeroesRollOnly ==
    /\ pidConfig \in PidConfigs
    /\ imuConfig \in ImuConfigs
    /\ lastGyro \in {Arr2(0, 0), Arr2(0, 77)}
    /\ delta1 = Arr2(0, 0)
    /\ delta2 = Arr2(0, 0)
    /\ errorGyroI = Arr3(0, 0, 0)
    /\ errorAngleI = Arr2(0, 0)
    /\ axisPID \in UnsetAxisPID

\* Stabilize::init, lines 63-80.
StabilizeInit ==
    /\ pidConfig \in PidConfigs
    /\ imuConfig \in ImuConfigs
    /\ lastGyro = Arr2(0, 0)
    /\ delta1 = Arr2(0, 0)
    /\ delta2 = Arr2(0, 0)
    /\ errorGyroI = Arr3(0, 0, 0)
    /\ errorAngleI = Arr2(0, 0)
    /\ axisPID \in UnsetAxisPID

\* Faulty variant: the loop that fills motorsDisarmed stops one motor short.
MixerInitStopsShort ==
    /\ pwmConfig \in PwmConfigs
    /\ motorsDisarmed = [i \in Motors |->
                            IF i < 3 THEN ToInt16(pwmConfig.min) ELSE 0]

\* Mixer::init, lines 59-74.
MixerInit ==
    /\ pwmConfig \in PwmConfigs
    /\ motorsDisarmed = [i \in Motors |-> ToInt16(pwmConfig.min)]

Init ==
    /\ StabilizeInit
    /\ MixerInit
    /\ call = PlainCall("init", NoFields)
    /\ writes = <<>>
    /\ ticks = 0
    /\ locals = NoLocals
    /\ tableSet = FALSE
    /\ pc = Idle
    /\ samples = NoSamples

\* Stabilize::update, lines 132-145.
StabilizeTick(in) ==
    /\ LET roll  == computeLevelPid(AxisState(AXIS_ROLL), in.rcCommand, in.gyroADC,
                                    in.eulerAngles, AXIS_ROLL, pidConfig, imuConfig)
           pitch == computeLevelPid(AxisState(AXIS_PITCH), in.rcCommand, in.gyroADC,
                                    in.eulerAngles, AXIS_PITCH, pidConfig, imuConfig)
           yawI  == NextErrorGyroI(errorGyroI[AXIS_YAW], pidConfig.yawP,
                                   in.rcCommand, in.gyroADC, AXIS_YAW)
           yaw   == YawPid(yawI, in.rcCommand, in.gyroADC, pidConfig)
       IN  /\ axisPID' = Arr3(roll.pid, pitch.pid, yaw.pid)
           /\ lastGyro' = Arr2(roll.lastGyro, pitch.lastGyro)
           /\ delta1' = Arr2(roll.delta1, pitch.delta1)
           /\ delta2' = Arr2(roll.delta2, pitch.delta2)
           /\ errorGyroI' = Arr3(roll.errorGyroI, pitch.errorGyroI, yawI)
           /\ errorAngleI' = Arr2(roll.errorAngleI, pitch.errorAngleI)
           /\ locals' = Locals(roll, pitch, yaw)
    /\ samples' = <<in.gyroADC, samples[1], samples[2], samples[3]>>
    /\ call' = Call("update", in, FALSE, FALSE, 0, Arr4(0, 0, 0, 0),
                    call.op = "resetIntegral", Fields)
    /\ writes' = <<>>
    /\ ticks' = ticks + 1
    /\ UNCHANGED <<pidConfig, imuConfig, mixerVars, tableSet, pc>>

StabilizeUpdate(in) ==
    /\ ticks < MaxTicks
    /\ StabilizeTick(in)

\* Faulty variant: resetIntegral that forgets the yaw rate integral.
ResetIntegralSkipsYaw ==
    /\ errorGyroI' = [errorGyroI EXCEPT ![AXIS_ROLL] = 0, ![AXIS_PITCH] = 0]
    /\ errorAngleI' = [errorAngleI EXCEPT ![AXIS_ROLL] = 0, ![AXIS_PITCH] = 0]
    /\ call' = PlainCall("resetIntegral", Fields)
    /\ writes' = <<>>
    /\ locals' = NoLocals
    /\ UNCHANGED <<axisPID, lastGyro, delta1, delta2, pidConfig, imuConfig,
                   mixerVars, ticks, samples, tableSet, pc>>

\* Faulty variant: resetIntegral that also clears the gyro history, as init does.
ResetIntegralClearsHistory ==
    /\ errorGyroI' = Arr3(0, 0, 0)
    /\ errorAngleI' = Arr2(0, 0)
    /\ lastGyro' = Arr2(0, 0)
    /\ delta1' = Arr2(0, 0)
    /\ delta2' = Arr2(0, 0)
    /\ call' = PlainCall("resetIntegral", Fields)
    /\ writes' = <<>>
    /\ locals' = NoLocals
    /\ UNCHANGED <<axisPID, pidConfig, imuConfig, mixerVars, ticks, samples, tableSet, pc>>

\* Stabilize::resetIntegral, lines 147-154.
ResetIntegral ==
    /\ errorGyroI' = [errorGyroI EXCEPT ![AXIS_ROLL] = 0, ![AXIS_PITCH] = 0,
                                        ![AXIS_YAW] = 0]
    /\ errorAngleI' = [errorAngleI EXCEPT ![AXIS_ROLL] = 0, ![AXIS_PITCH] = 0]
    /\ call' = PlainCall("resetIntegral", Fields)
    /\ writes' = <<>>
    /\ locals' = NoLocals
    /\ UNCHANGED <<axisPID, lastGyro, delta1, delta2, pidConfig, imuConfig,
                   mixerVars, ticks, samples, tableSet, pc>>

\* Mixer::update, lines 76-119.
MixerUpdate(armed, throttle, down) ==
    /\ \E m0 \in Int16OfFloat(MixSum(0, throttle, axisPID)),
          m1 \in Int16OfFloat(MixSum(1, throttle, axisPID)),
          m2 \in Int16OfFloat(MixSum(2, throttle, axisPID)),
          m3 \in Int16OfFloat(MixSum(3, throttle, axisPID)) :
          LET motors == Arr4(m0, m1, m2, m3) IN
          /\ call' = Call("mixer", ZeroInput, armed, down, throttle, motors, FALSE,
                          NoFields)
          /\ writes' = MotorWrites([i \in Motors |->
                           FinalMotor(motors, i, armed, down, motorsDisarmed, pwmConfig)])
    /\ locals' = NoLocals
    /\ UNCHANGED <<stabVars, mixerVars, ticks, samples, tableSet, pc>>

\* The MSP link stores a motor value in the public table (mixer.hpp, line 33).
MspSetMotor(i, value) ==
    /\ motorsDisarmed' = [motorsDisarmed EXCEPT ![i] = ToInt16(value)]
    /\ call' = PlainCall("msp", NoFields)
    /\ writes' = <<>>
    /\ locals' = NoLocals
    /\ tableSet' = TRUE
    /\ UNCHANGED <<stabVars, pwmConfig, ticks, samples, pc>>

Next ==
    \/ \E in \in StabilizeInputs : StabilizeUpdate(in)
    \/ ResetIntegral
    \/ \E armed \in BOOLEAN, throttle \in Throttles, down \in BOOLEAN :
          MixerUpdate(armed, throttle, down)
    \/ \E i \in MspMotors, value \in MspValues : MspSetMotor(i, value)

Spec == Init /\ [][Next]_vars

-----------------------------------------------------------------------------
(* Mixer::update line by line *)

\* Mixer::update runs to completion before anything else is called: the other
\* operations start only when no update is in progress.
StepsStabilizeUpdate(in) ==
    /\ pc = Idle
    /\ ticks < StepTicks
    /\ StabilizeTick(in)

StepsMspSetMotor(i, value) ==
    /\ pc = Idle
    /\ MspSetMotor(i, value)

\* update, line 78: the call starts with motors[] declared and not yet filled.
MixerBegin(armed, throttle, down) ==
    /\ pc = Idle
    /\ pc' = [loop |-> "mix", i |-> 0, maxMotor |-> 0]
    /\ call' = Call("mixer", ZeroInput, armed, down, throttle, Arr4(0, 0, 0, 0),
                    FALSE, NoFields)
    /\ writes' = <<>>
    /\ locals' = NoLocals
    /\ UNCHANGED <<stabVars, mixerVars, ticks, samples, tableSet>>

\* update, lines 80-88: one pass of the mixing loop; line 90 once it ends.
MixerMixStep ==
    /\ pc.loop = "mix"
    /\ \E m \in Int16OfFloat(MixSum(pc.i, call.throttle, axisPID)) :
          LET motors == [call.motors EXCEPT ![pc.i] = m] IN
          /\ call' = [call EXCEPT !.motors = motors]
          /\ pc' = IF pc.i < 3
                   THEN [pc EXCEPT !.i = pc.i + 1]
                   ELSE [loop |-> "max", i |-> 1, maxMotor |-> motors[0]]
    /\ UNCHANGED <<stabVars, mixerVars, writes, ticks, samples, locals, tableSet>>

\* update, lines 91-94: one pass of the maximum search.
MixerMaxStep ==
    /\ pc.loop = "max"
    /\ LET maxMotor == IF call.motors[pc.i] > pc.maxMotor
                       THEN call.motors[pc.i]
                       ELSE pc.maxMotor
       IN  pc' = IF pc.i < 3
                 THEN [pc EXCEPT !.i = pc.i + 1, !.maxMotor = maxMotor]
                 ELSE [loop |-> "final", i |-> 0, maxMotor |-> maxMotor]
    /\ UNCHANGED <<stabVars, mixerVars, call, writes, ticks, samples, locals, tableSet>>

\* Faulty variant: each motor written as soon as its final value is known.
MixerFinalStepWritesAtOnce ==
    /\ pc.loop = "final"
    /\ LET shifted == Redistribute(call.motors[pc.i], pc.maxMotor, pwmConfig)
           clamped == ToInt16(constrain(shifted, pwmConfig.min, pwmConfig.max))
           idled   == IF call.down THEN ToInt16(pwmConfig.min) ELSE clamped
           final   == IF ~call.armed THEN motorsDisarmed[pc.i] ELSE idled
       IN  /\ call' = [call EXCEPT !.motors[pc.i] = final]
           /\ writes' = Append(writes, <<pc.i, ToUint16(final)>>)
    /\ pc' = IF pc.i < 3 THEN [pc EXCEPT !.i = pc.i + 1] ELSE Idle
    /\ UNCHANGED <<stabVars, mixerVars, ticks, samples, locals, tableSet>>

\* update, lines 96-114: one pass of the loop that settles motors[i].
MixerFinalStep ==
    /\ pc.loop = "final"
    /\ LET shifted == Redistribute(call.motors[pc.i], pc.maxMotor, pwmConfig)
           clamped == ToInt16(constrain(shifted, pwmConfig.min, pwmConfig.max))
           idled   == IF call.down THEN ToInt16(pwmConfig.min) ELSE clamped
           final   == IF ~call.armed THEN motorsDisarmed[pc.i] ELSE idled
       IN  call' = [call EXCEPT !.motors[pc.i] = final]
    /\ pc' = IF pc.i < 3
             THEN [pc EXCEPT !.i = pc.i + 1]
             ELSE [pc EXCEPT !.loop = "write", !.i = 0]
    /\ UNCHANGED <<stabVars, mixerVars, writes, ticks, samples, locals, tableSet>>

\* update, lines 116-118: one pass of the loop that calls board->writeMotor.
MixerWriteStep ==
    /\ pc.loop = "write"
    /\ writes' = Append(writes, <<pc.i, ToUint16(call.motors[pc.i])>>)
    /\ pc' = IF pc.i < 3 THEN [pc EXCEPT !.i = pc.i + 1] ELSE Idle
    /\ UNCHANGED <<stabVars, mixerVars, call, ticks, samples, locals, tableSet>>

NextSteps ==
    \/ \E in \in StabilizeInputs : StepsStabilizeUpdate(in)
    \/ \E armed \in BOOLEAN, throttle \in Throttles, down \in BOOLEAN :
          MixerBegin(armed, throttle, down)
    \/ MixerMixStep
    \/ MixerMaxStep
    \/ MixerFinalStep
    \/ MixerWriteStep
    \/ \E i \in MspMotors, value \in MspValues : StepsMspSetMotor(i, value)

SpecSteps == Init /\ [][NextSteps]_vars

-----------------------------------------------------------------------------
(* Stabilize alone, over a wider set of inputs *)

BlendUpdate(in) ==
    /\ ticks < BlendTicks
    /\ StabilizeTick(in)

NextBlend ==
    \/ \E in \in BlendInputs : BlendUpdate(in)
    \/ ResetIntegral

SpecBlend == Init /\ [][NextBlend]_vars

-----------------------------------------------------------------------------
(* Properties *)

IsMixerCall == call.op = "mixer" /\ Len(writes) = 4

IsUpdateCall == call.op = "update"

\* The value the k-th motor received in the most recent mixer call.
Written(i) == writes[i + 1][2]

InPwmRange(v) == v >= pwmConfig.min /\ v <= pwmConfig.max

\* The largest raw mix of the most recent mixer call.
RawMax ==
    CHOOSE m \in {call.motors[i] : i \in Motors} :
        \A i \in Motors : call.motors[i] <= m

\* A raw mix lowered by the overshoot of the largest one, as a plain integer.
Lowered(i) == call.motors[i] - (RawMax - pwmConfig.max)

ClampPwm(v) ==
    IF v < pwmConfig.min THEN pwmConfig.min
    ELSE IF v > pwmConfig.max THEN pwmConfig.max ELSE v

\* C1 as stated: in every Mixer.update call, whatever the arm flag and the
\* disarmed-motor table hold, each of the four values written lies in
\* [pwmMin, pwmMax].
C1_EveryWriteInPwmRange ==
    IsMixerCall => \A i \in Motors : InPwmRange(Written(i))

\* C1 amended: in every Mixer.update call that is armed, or whose disarmed-motor
\* table holds only values in [pwmMin, pwmMax], each of the four values written
\* lies in [pwmMin, pwmMax].
C1_ArmedWritesInPwmRange ==
    (IsMixerCall /\ (call.armed \/ \A i \in Motors : InPwmRange(motorsDisarmed[i])))
        => \A i \in Motors : InPwmRange(Written(i))

\* An armed call, stick up, with one raw mix above pwmMax and another below
\* pwmMin.
C1_Witness ==
    /\ IsMixerCall /\ call.armed /\ ~call.down
    /\ \E i, j \in Motors :
          /\ Lowered(i) > pwmConfig.max \/ call.motors[i] > pwmConfig.max
          /\ Lowered(j) < pwmConfig.min

\* C2 as stated: in every Mixer.update call with the throttle stick at minimum,
\* all four motor outputs equal pwmMin.
C2_StickDownWritesPwmMin ==
    (IsMixerCall /\ call.down) => \A i \in Motors : Written(i) = pwmConfig.min

\* C2 amended: in every armed Mixer.update call with the throttle stick at
\* minimum, all four motor outputs equal pwmMin, whatever the corrections are.
C2_ArmedStickDownWritesPwmMin ==
    (IsMixerCall /\ call.armed /\ call.down)
        => \A i \in Motors : Written(i) = pwmConfig.min

\* An armed stick-down call whose raw mixes are not pwmMin and whose
\* corrections are not zero.
C2_Witness ==
    /\ IsMixerCall /\ call.armed /\ call.down
    /\ \E a \in Axes : axisPID[a] # 0
    /\ \A i \in Motors : ClampPwm(Lowered(i)) # pwmConfig.min
    /\ \A i \in Motors : Written(i) = pwmConfig.min

\* C3: in every Mixer.update call with armed false, motor i receives
\* motorsDisarmed[i], whatever the throttle, the throttle-down query and the
\* corrections are.
C3_DisarmedWritesTable ==
    (IsMixerCall /\ ~call.armed)
        => \A i \in Motors : writes[i + 1] = <<i, motorsDisarmed[i]>>

\* A disarmed stick-down call with nonzero corrections after MSP changed one
\* entry of the table.
C3_Witness ==
    /\ IsMixerCall /\ ~call.armed /\ call.down
    /\ \E a \in Axes : axisPID[a] # 0
    /\ motorsDisarmed[2] = 1500
    /\ Written(2) = 1500 /\ Written(0) = pwmConfig.min

\* C4: the rate integrals stay within 16000 and the angle integrals within
\* 10000 in magnitude, after every update and every resetIntegral.
C4_IntegralsBounded ==
    /\ \A axis \in Axes : Abs(errorGyroI[axis]) <= 16000
    /\ \A axis \in LevelAxes : Abs(errorAngleI[axis]) <= 10000

\* An update that found integrals whose sums with this tick's errors pass both
\* bounds and left them at the bounds.
C4_Witness ==
    /\ IsUpdateCall
    /\ errorGyroI[AXIS_ROLL] = 16000
    /\ call.pre.errorGyroI[AXIS_ROLL]
         + GyroError(pidConfig.ratePitchrollP, call.in.rcCommand,
                     call.in.gyroADC, AXIS_ROLL) > 16000
    /\ errorAngleI[AXIS_PITCH] = -10000
    /\ call.pre.errorAngleI[AXIS_PITCH] < 0
    /\ call.pre.errorAngleI[AXIS_PITCH]
         + ErrorAngle(call.in.rcCommand, call.in.eulerAngles, AXIS_PITCH, imuConfig)
         < -10000

\* C5: after an update, the rate integral of an axis is 0 if that axis's gyro
\* magnitude exceeded 640 on the tick, and the yaw rate integral is 0 if the yaw
\* stick magnitude exceeded 100.
C5_WindupGuardZeroes ==
    IsUpdateCall =>
        /\ \A axis \in Axes :
              Abs(call.in.gyroADC[axis]) > 640 => errorGyroI[axis] = 0
        /\ Abs(call.in.rcCommand[DEMAND_YAW]) > 100 => errorGyroI[AXIS_YAW] = 0

\* An update with a roll rate beyond 640 and a yaw stick beyond 100 (yaw rate
\* calm) that found nonzero roll and yaw integrals.
C5_Witness ==
    /\ IsUpdateCall
    /\ Abs(call.in.gyroADC[AXIS_ROLL]) > 640
    /\ Abs(call.in.rcCommand[DEMAND_YAW]) > 100
    /\ Abs(call.in.gyroADC[AXIS_YAW]) <= 640
    /\ call.pre.errorGyroI[AXIS_ROLL] # 0
    /\ call.pre.errorGyroI[AXIS_YAW] # 0
    /\ errorGyroI[AXIS_ROLL] = 0 /\ errorGyroI[AXIS_YAW] = 0

\* C6 as stated: resetIntegral() followed by update() with all sticks, gyro
\* samples and Euler angles 0 yields a correction of 0 on roll, pitch and yaw.
C6_ResetThenZeroTickGivesZero ==
    (IsUpdateCall /\ call.afterReset /\ call.in = ZeroInput)
        => axisPID = Arr3(0, 0, 0)

\* The sum of gyro deltas a zero-gyro tick feeds to the D-term, from the
\* history the tick found.
ZeroTickDeltaSum(axis) ==
    call.pre.delta1[axis] + call.pre.delta2[axis] - call.pre.lastGyro[axis]

\* C6 amended: resetIntegral() followed by update() with all sticks, gyro
\* samples and Euler angles 0 yields, on roll and pitch, softwareTrim[axis]
\* minus ratePitchrollD times the delta sum left by the gyro history (which
\* resetIntegral does not clear), and on yaw softwareTrim[YAW] limited to
\* [-100, 100]; so the correction is 0 on an axis only when its trim is 0 and
\* its D-term is 0.
C6_ResetThenZeroTickGivesTrimMinusD ==
    (IsUpdateCall /\ call.afterReset /\ call.in = ZeroInput) =>
        /\ \A axis \in LevelAxes :
              axisPID[axis] =
                  pidConfig.softwareTrim[axis]
                  - TruncDiv(ZeroTickDeltaSum(axis) * pidConfig.ratePitchrollD.n,
                             pidConfig.ratePitchrollD.d)
        /\ axisPID[AXIS_YAW] =
              IF pidConfig.softwareTrim[AXIS_YAW] > 100 THEN 100
              ELSE IF pidConfig.softwareTrim[AXIS_YAW] < -100 THEN -100
              ELSE pidConfig.softwareTrim[AXIS_YAW]

\* A zero tick right after a resetIntegral, with zero trim and a gyro history
\* that still gives a D-term on pitch.
C6_Witness ==
    /\ IsUpdateCall /\ call.afterReset /\ call.in = ZeroInput
    /\ pidConfig.softwareTrim = Arr3(0, 0, 0)
    /\ call.pre.errorGyroI = Arr3(0, 0, 0)
    /\ ZeroTickDeltaSum(AXIS_PITCH) # 0
    /\ axisPID[AXIS_PITCH] # 0
    /\ axisPID[AXIS_YAW] = 0

\* C7: resetIntegral() zeroes the three rate integrals and the two angle
\* integrals and changes nothing else of Stabilize: lastGyro, delta1, delta2,
\* axisPID and the configuration copies keep their values.
C7_ResetIntegralFrame ==
    [][call'.op = "resetIntegral" =>
          /\ errorGyroI' = Arr3(0, 0, 0)
          /\ errorAngleI' = Arr2(0, 0)
          /\ UNCHANGED <<lastGyro, delta1, delta2, axisPID, pidConfig, imuConfig>>
      ]_vars

\* A resetIntegral that found every integral, the gyro history and the
\* corrections nonzero.
C7_Witness ==
    /\ call.op = "resetIntegral"
    /\ \A axis \in Axes : call.pre.errorGyroI[axis] # 0
    /\ \A axis \in LevelAxes : call.pre.errorAngleI[axis] # 0
    /\ \A axis \in LevelAxes :
          lastGyro[axis] # 0 /\ delta1[axis] # 0 /\ delta2[axis] # 0
    /\ \A axis \in Axes : axisPID[axis] # 0
    /\ errorGyroI = Arr3(0, 0, 0) /\ errorAngleI = Arr2(0, 0)

\* C8: in an armed call, stick up, whose largest raw mix exceeds pwmMax, any
\* two motors the clamp to [pwmMin, pwmMax] leaves alone differ in their
\* outputs by what their raw mixes differ.
C8_RedistributionKeepsDifferences ==
    (IsMixerCall /\ call.armed /\ ~call.down /\ RawMax > pwmConfig.max) =>
        \A i, j \in Motors :
            (InPwmRange(Lowered(i)) /\ InPwmRange(Lowered(j)))
                => Written(i) - Written(j) = call.motors[i] - call.motors[j]

\* Such a call with two motors of different raw mixes, neither clamped, one of
\* them above pwmMax before the redistribution.
C8_Witness ==
    /\ IsMixerCall /\ call.armed /\ ~call.down /\ RawMax > pwmConfig.max
    /\ \E i, j \in Motors :
          /\ InPwmRange(Lowered(i)) /\ InPwmRange(Lowered(j))
          /\ call.motors[i] > pwmConfig.max
          /\ call.motors[j] < call.motors[i]
          /\ Written(i) - Written(j) = call.motors[i] - call.motors[j]

\* C9: in an armed call, stick up, whose largest raw mix M exceeds pwmMax, the
\* motor holding M receives pwmMax and every other motor receives its raw mix
\* minus (M - pwmMax), clamped to [pwmMin, pwmMax].
C9_OvershootSubtractedThenClamped ==
    (IsMixerCall /\ call.armed /\ ~call.down /\ RawMax > pwmConfig.max) =>
        \A i \in Motors :
            /\ Written(i) = ClampPwm(Lowered(i))
            /\ call.motors[i] = RawMax => Written(i) = pwmConfig.max

\* The scenario of C9: raw mixes 2200, 1800, 1800, 1800 give 2000, 1600, 1600,
\* 1600.
C9_Scenario ==
    /\ IsMixerCall /\ call.armed /\ ~call.down
    /\ call.motors = Arr4(2200, 1800, 1800, 1800)
    /\ [i \in Motors |-> Written(i)] = Arr4(2000, 1600, 1600, 1600)

\* C10: in an armed call, stick up, with all three corrections 0 and the
\* throttle demand within [pwmMin, pwmMax], all four motors receive the throttle
\* demand.
C10_PureThrottle ==
    (IsMixerCall /\ call.armed /\ ~call.down /\ axisPID = Arr3(0, 0, 0)
       /\ InPwmRange(call.throttle))
        => \A i \in Motors : Written(i) = call.throttle

\* The scenario of C10 after a Stabilize tick that produced zero corrections:
\* throttle 1500 with pwmMin 1000 and pwmMax 2000.
C10_Witness ==
    /\ IsMixerCall /\ call.armed /\ ~call.down /\ axisPID = Arr3(0, 0, 0)
    /\ ticks > 0
    /\ pwmConfig = [min |-> 1000, max |-> 2000]
    /\ call.throttle = 1500
    /\ \A i \in Motors : Written(i) = 1500

\* C11: every Mixer::update, armed or disarmed, issues exactly four writeMotor
\* calls, for motors 0, 1, 2, 3 in that order; no write is issued while the
\* mixing, maximum or final-value loop is still running, and each write carries
\* the final value of its motor.
C11_FourWritesAfterAllFinalValues ==
    /\ Len(writes) <= 4
    /\ \A k \in 1..Len(writes) : writes[k][1] = k - 1
    /\ pc.loop \in {"mix", "max", "final"} => writes = <<>>
    /\ (call.op = "mixer" /\ pc.loop = "write") => Len(writes) = pc.i
    /\ (call.op = "mixer" /\ pc = Idle) => Len(writes) = 4
    /\ call.op = "mixer" =>
          \A k \in 1..Len(writes) : writes[k][2] = ToUint16(call.motors[k - 1])

C11_Witness ==
    /\ call.op = "mixer"
    /\ pc = Idle
    /\ Len(writes) = 4
    /\ ~call.armed
    /\ call.down
    /\ tableSet
    /\ writes[3][2] # writes[4][2]

\* C12: after every Stabilize::update the magnitude of the yaw correction is at
\* most 100 plus the magnitude of the yaw stick demand of that tick, whatever
\* the state before the tick, the gains, the trim and the gyro reading.
C12_YawJumpBounded ==
    IsUpdateCall =>
        Abs(axisPID[AXIS_YAW]) <= 100 + Abs(call.in.rcCommand[DEMAND_YAW])

C12_Witness ==
    /\ IsUpdateCall
    /\ call.in.rcCommand[DEMAND_YAW] # 0
    /\ locals.yawRaw < -(100 + Abs(call.in.rcCommand[DEMAND_YAW]))
    /\ axisPID[AXIS_YAW] = -(100 + Abs(call.in.rcCommand[DEMAND_YAW]))

\* C13 as stated: before the yaw-jump clamp the yaw correction is the yaw stick
\* demand scaled by yawP, plus the yaw rate-integral term, plus the yaw trim.
C13_YawStickScaledByYawP ==
    IsUpdateCall =>
        locals.yawRaw =
            TruncDiv(call.in.rcCommand[AXIS_YAW] * pidConfig.yawP.n, pidConfig.yawP.d)
            + locals.ITermGyro[AXIS_YAW] + pidConfig.softwareTrim[AXIS_YAW]

\* C13, amended: before the yaw-jump clamp the yaw correction is the yaw stick
\* demand itself, minus the yaw gyro rate times yawP, plus the yaw
\* rate-integral term, plus the yaw trim, with no derivative term, held in an
\* int16_t.
C13_YawStickMinusScaledRate ==
    IsUpdateCall =>
        /\ locals.ITermGyro[AXIS_YAW] =
               ShiftRight6(TruncDiv(errorGyroI[AXIS_YAW] * pidConfig.yawI.n,
                                    pidConfig.yawI.d))
        /\ locals.yawRaw =
               ToInt16(TruncDiv(call.in.rcCommand[AXIS_YAW] * pidConfig.yawP.d
                                - call.in.gyroADC[AXIS_YAW] * pidConfig.yawP.n,
                                pidConfig.yawP.d)
                       + locals.ITermGyro[AXIS_YAW]
                       + pidConfig.softwareTrim[AXIS_YAW])

C13_Witness ==
    /\ IsUpdateCall
    /\ call.in.rcCommand[AXIS_YAW] # 0
    /\ call.in.gyroADC[AXIS_YAW] # 0
    /\ locals.ITermGyro[AXIS_YAW] # 0
    /\ pidConfig.softwareTrim[AXIS_YAW] # 0
    /\ call.pre.delta1[AXIS_ROLL] # 0
    /\ locals.yawRaw # 0

\* C14: Mixer::init leaves every entry of motorsDisarmed at pwmConfig.min, so
\* a disarmed Mixer::update issued before MSP has stored anything in the table
\* writes pwmConfig.min to each of the four motors.
C14_InitTableWritesPwmMin ==
    /\ ~tableSet => \A i \in Motors : motorsDisarmed[i] = pwmConfig.min
    /\ (IsMixerCall /\ ~call.armed /\ ~tableSet) =>
          \A i \in Motors : Written(i) = pwmConfig.min

C14_Witness ==
    /\ IsMixerCall
    /\ ~call.armed
    /\ ~call.down
    /\ ~tableSet
    /\ ticks > 0
    /\ call.motors[0] > pwmConfig.max
    /\ call.motors[1] < pwmConfig.min
    /\ \A i \in Motors : Written(i) = pwmConfig.min

\* C15: the overrides of Mixer::update form a priority chain.  The disarm
\* override beats the stick-down override, which beats clamping and
\* redistribution: an armed call with the throttle stick down writes
\* pwmConfig.min to every motor whatever the mix was, and a disarmed call writes
\* motorsDisarmed[i] to motor i, with the throttle stick down too.
C15_OverridePriority ==
    IsMixerCall =>
        \A i \in Motors :
            /\ ~call.armed => Written(i) = ToUint16(motorsDisarmed[i])
            /\ (call.armed /\ call.down) => Written(i) = pwmConfig.min

\* A disarmed stick-down call whose largest raw mix overshoots pwmConfig.max and
\* whose table holds 0 for motor 2: motor 2 receives 0, not pwmConfig.min.
C15_Witness ==
    /\ IsMixerCall /\ ~call.armed /\ call.down
    /\ RawMax > pwmConfig.max
    /\ motorsDisarmed[2] = 0
    /\ Written(2) = 0
    /\ Written(2) # pwmConfig.min
    /\ Written(3) = pwmConfig.min

\* C16: the raw mix of motor i is throttle * t + pitch correction * p + roll
\* correction * r - yaw correction * y, with (t, r, p, y) = (+1, -1, +1, -1)
\* for motor 0, (+1, -1, -1, +1) for motor 1, (+1, +1, +1, +1) for motor 2 and
\* (+1, +1, -1, -1) for motor 3: yaw is subtracted, not added.
C16_RawMixIsQuadXSum ==
    IsMixerCall =>
        LET T == call.throttle
            R == axisPID[AXIS_ROLL]
            P == axisPID[AXIS_PITCH]
            Y == axisPID[AXIS_YAW]
        IN  call.motors = Arr4(T + P - R + Y,
                               T - P - R - Y,
                               T + P + R - Y,
                               T - P + R + Y)

\* A call after a Stabilize::update whose three corrections differ in magnitude
\* and whose raw mixes are the four quad-X sums.
C16_Scenario ==
    /\ IsMixerCall
    /\ ticks > 0
    /\ axisPID[AXIS_ROLL] # 0 /\ axisPID[AXIS_PITCH] # 0 /\ axisPID[AXIS_YAW] # 0
    /\ Abs(axisPID[AXIS_ROLL]) # Abs(axisPID[AXIS_PITCH])
    /\ Abs(axisPID[AXIS_ROLL]) # Abs(axisPID[AXIS_YAW])
    /\ Abs(axisPID[AXIS_PITCH]) # Abs(axisPID[AXIS_YAW])
    /\ call.motors[0] = call.throttle + axisPID[AXIS_PITCH] - axisPID[AXIS_ROLL]
                            + axisPID[AXIS_YAW]
    /\ call.motors[1] = call.throttle - axisPID[AXIS_PITCH] - axisPID[AXIS_ROLL]
                            - axisPID[AXIS_YAW]
    /\ call.motors[2] = call.throttle + axisPID[AXIS_PITCH] + axisPID[AXIS_ROLL]
                            - axisPID[AXIS_YAW]
    /\ call.motors[3] = call.throttle - axisPID[AXIS_PITCH] + axisPID[AXIS_ROLL]
                            + axisPID[AXIS_YAW]

\* Values of errorAngleI[axis] for a second controller that differs from the
\* one under test in that field only.
TwinAngleIs == {-10000, 0, 4321}

\* The fields of one roll/pitch axis as the most recent update found them, with
\* errorAngleI replaced.
TwinAxisState(axis, angleI) ==
    [lastGyro    |-> call.pre.lastGyro[axis],
     delta1      |-> call.pre.delta1[axis],
     delta2      |-> call.pre.delta2[axis],
     errorGyroI  |-> call.pre.errorGyroI[axis],
     errorAngleI |-> angleI]

\* C17: the roll and pitch corrections do not depend on errorAngleI.  A second
\* controller whose state before the tick differs only in errorAngleI, given
\* the same inputs, produces the same correction and the same gyro history and
\* rate integral, so the two still differ only in errorAngleI on the next
\* tick and produce identical corrections on every tick.
C17_CorrectionIgnoresAngleIntegral ==
    IsUpdateCall =>
        \A axis \in LevelAxes, angleI \in TwinAngleIs :
            LET twin == computeLevelPid(TwinAxisState(axis, angleI),
                                        call.in.rcCommand, call.in.gyroADC,
                                        call.in.eulerAngles, axis, pidConfig,
                                        imuConfig)
            IN  /\ twin.pid = axisPID[axis]
                /\ twin.lastGyro = lastGyro[axis]
                /\ twin.delta1 = delta1[axis]
                /\ twin.delta2 = delta2[axis]
                /\ twin.errorGyroI = errorGyroI[axis]

\* An update that found a nonzero angle integral that is none of the twin
\* values, moved it, and produced nonzero roll and pitch corrections from a
\* nonzero leveling P term.
C17_Witness ==
    /\ IsUpdateCall
    /\ \A axis \in LevelAxes :
          /\ call.pre.errorAngleI[axis] \notin TwinAngleIs
          /\ errorAngleI[axis] # call.pre.errorAngleI[axis]
          /\ locals.PTermAccel[axis] # 0
          /\ locals.prop < 500
          /\ axisPID[axis] # 0

\* C18: for every stick demand passed to update, the blend factor prop, the
\* larger of the pitch and roll stick magnitudes, lies in [0, 500], so the
\* leveling weight 500 - prop is never negative and the stick weight never
\* exceeds 500.
C18_PropWithin500 ==
    IsUpdateCall =>
        /\ locals.prop = Max2(Abs(call.in.rcCommand[DEMAND_PITCH]),
                              Abs(call.in.rcCommand[DEMAND_ROLL]))
        /\ locals.prop >= 0
        /\ locals.prop <= 500
        /\ 500 - locals.prop >= 0

\* An update whose sticks are within 500: prop is the larger magnitude and
\* both weights are within [0, 500].
C18_Scenario ==
    /\ IsUpdateCall
    /\ call.in.rcCommand[DEMAND_ROLL] = 200
    /\ call.in.rcCommand[DEMAND_PITCH] = -300
    /\ locals.prop = 300
    /\ 500 - locals.prop = 200

\* C19: the roll and pitch P and I terms blend leveling and rate control by
\* prop.  The P term is (angle error * levelP * (500 - prop) + stick * prop) /
\* 500 and the I term is rate-integral term * prop / 500; at prop = 0 the P
\* term is the angle error times levelP and the I term is 0, at prop = 500 the
\* P term is the raw stick demand and the I term is the whole rate-integral
\* term.
C19_BlendByProp ==
    IsUpdateCall =>
        \A axis \in LevelAxes :
            LET stick    == call.in.rcCommand[axis]
                levelP   == TruncDiv(locals.errorAngle[axis] * pidConfig.levelP.n,
                                     pidConfig.levelP.d)
                rateI    == ShiftRight6(TruncDiv(
                                errorGyroI[axis] * pidConfig.ratePitchrollI.n,
                                pidConfig.ratePitchrollI.d))
                prop     == locals.prop
            IN  /\ locals.ITermGyro[axis] = rateI
                /\ locals.PTerm[axis] =
                       TruncDiv(levelP * (500 - prop) + stick * prop, 500)
                /\ locals.ITerm[axis] = TruncDiv(rateI * prop, 500)
                /\ prop = 0 => locals.PTerm[axis] = levelP /\ locals.ITerm[axis] = 0
                /\ prop = 500 => /\ locals.PTerm[axis] = stick
                                 /\ locals.ITerm[axis] = rateI

\* An update with centred sticks on a tilted craft whose rate integrals are
\* not zero: the P terms are the leveling terms, the I terms are 0.
C19_Witness ==
    /\ IsUpdateCall
    /\ locals.prop = 0
    /\ \A axis \in LevelAxes :
          /\ locals.PTermAccel[axis] # 0
          /\ locals.PTerm[axis] = locals.PTermAccel[axis]
          /\ locals.ITermGyro[axis] # 0
          /\ locals.ITerm[axis] = 0

\* C20: the roll and pitch correction of a tick is (blended P term - gyro rate
\* * ratePitchrollP) + blended I term - D term + softwareTrim[axis]; the rate
\* damping is subtracted on every tick, whatever prop is.
C20_CorrectionIsDampedSum ==
    IsUpdateCall =>
        \A axis \in LevelAxes :
            axisPID[axis] =
                TruncDiv(locals.PTerm[axis] * pidConfig.ratePitchrollP.d
                         - call.in.gyroADC[axis] * pidConfig.ratePitchrollP.n,
                         pidConfig.ratePitchrollP.d)
                + locals.ITerm[axis] - locals.DTerm[axis]
                + pidConfig.softwareTrim[axis]

\* An update with sticks within 500 where every term of both corrections is
\* nonzero and the corrections are the damped sums.
C20_Scenario ==
    /\ IsUpdateCall
    /\ locals.prop > 0 /\ locals.prop < 500
    /\ \A axis \in LevelAxes :
          /\ locals.PTerm[axis] # 0
          /\ locals.ITerm[axis] # 0
          /\ locals.DTerm[axis] # 0
          /\ call.in.gyroADC[axis] # 0
          /\ pidConfig.softwareTrim[axis] # 0
          /\ axisPID[axis] =
                 TruncDiv(locals.PTerm[axis] * pidConfig.ratePitchrollP.d
                          - call.in.gyroADC[axis] * pidConfig.ratePitchrollP.n,
                          pidConfig.ratePitchrollP.d)
                 + locals.ITerm[axis] - locals.DTerm[axis]
                 + pidConfig.softwareTrim[axis]

\* C21: after every update, for roll and pitch, lastGyro holds this tick's gyro
\* sample, delta1 holds this tick's delta (the sample minus the previous
\* sample) and delta2 holds the previous tick's delta; the D term of the tick
\* is ratePitchrollD times the sum of this tick's delta and the two deltas
\* stored before the tick, converted to int32_t.
C21_GyroHistoryAndDTerm ==
    IsUpdateCall =>
        \A axis \in LevelAxes :
            LET delta == call.in.gyroADC[axis] - call.pre.lastGyro[axis] IN
            /\ lastGyro[axis] = call.in.gyroADC[axis]
            /\ delta1[axis] = delta
            /\ delta2[axis] = call.pre.delta1[axis]
            /\ locals.DTerm[axis] =
                   TruncDiv((delta + call.pre.delta1[axis] + call.pre.delta2[axis])
                                * pidConfig.ratePitchrollD.n,
                            pidConfig.ratePitchrollD.d)

\* A third or later update that found, on both axes, three different nonzero
\* history values and produced a nonzero D term.
C21_Witness ==
    /\ IsUpdateCall
    /\ ticks >= 3
    /\ \A axis \in LevelAxes :
          /\ call.pre.lastGyro[axis] # 0
          /\ call.pre.delta1[axis] # 0
          /\ call.pre.delta2[axis] # 0
          /\ call.pre.delta1[axis] # call.pre.delta2[axis]
          /\ delta1[axis] # call.pre.delta1[axis]
          /\ delta1[axis] # 0
          /\ locals.DTerm[axis] # 0

\* C22: on every update, for roll and pitch, the delta sum fed to the D term
\* is this tick's gyro sample minus the sample of three ticks earlier (0 when
\* there was no such tick), whatever the inputs were and whether or not
\* resetIntegral ran in between; so on the fourth consecutive tick with the
\* same sample the D term is 0.
C22_DeltaSumTelescopes ==
    IsUpdateCall =>
        \A axis \in LevelAxes :
            /\ samples[1][axis] = call.in.gyroADC[axis]
            /\ locals.deltaSum[axis] = samples[1][axis] - samples[4][axis]
            /\ (\A k \in 2..4 : samples[k][axis] = samples[1][axis])
                  => locals.DTerm[axis] = 0

\* The fourth update in a row with the same nonzero roll and pitch samples,
\* with a resetIntegral just before it.
C22_Witness ==
    /\ IsUpdateCall
    /\ call.afterReset
    /\ ticks = 4
    /\ \A axis \in LevelAxes :
          /\ samples[1][axis] # 0
          /\ \A k \in 2..4 : samples[k][axis] = samples[1][axis]
          /\ call.pre.lastGyro[axis] = samples[1][axis]
          /\ locals.deltaSum[axis] = 0
          /\ locals.DTerm[axis] = 0

\* Every integral and every gyro-history field is 0.
Quiet ==
    /\ errorGyroI = Arr3(0, 0, 0)
    /\ errorAngleI = Arr2(0, 0)
    /\ lastGyro = Arr2(0, 0)
    /\ delta1 = Arr2(0, 0)
    /\ delta2 = Arr2(0, 0)

\* The yaw trim limited to [-100, 100].
YawTrimClamped ==
    IF pidConfig.softwareTrim[AXIS_YAW] > 100 THEN 100
    ELSE IF pidConfig.softwareTrim[AXIS_YAW] < -100 THEN -100
    ELSE pidConfig.softwareTrim[AXIS_YAW]

\* C23: init leaves every integral and every gyro-history field at 0, and an
\* update with all stick demands, gyro samples and Euler angles 0 on such a
\* state keeps them at 0 and yields softwareTrim on roll and pitch and
\* softwareTrim limited to [-100, 100] on yaw; so any number of consecutive
\* zero ticks after init does.
C23_ZeroTicksKeepQuiet ==
    /\ Quiet
    /\ [][(Quiet /\ call'.op = "update" /\ call'.in = ZeroInput) =>
             /\ Quiet'
             /\ axisPID' = Arr3(pidConfig.softwareTrim[AXIS_ROLL],
                                pidConfig.softwareTrim[AXIS_PITCH],
                                YawTrimClamped)
         ]_vars

\* The fourth zero tick in a row on a state with nonzero trim: nothing moved,
\* and the corrections are the trim again, the yaw one limited to 100.
C23_Witness ==
    /\ IsUpdateCall
    /\ call.in = ZeroInput
    /\ ticks = 4
    /\ samples = NoSamples
    /\ Quiet
    /\ call.pre.errorGyroI = Arr3(0, 0, 0)
    /\ call.pre.errorAngleI = Arr2(0, 0)
    /\ pidConfig.softwareTrim[AXIS_YAW] > 100
    /\ axisPID = Arr3(pidConfig.softwareTrim[AXIS_ROLL],
                      pidConfig.softwareTrim[AXIS_PITCH], 100)
    /\ call.pre.axisPID = axisPID

\* An array with every element negated.
NegArr(a) == [i \in DOMAIN a |-> -a[i]]

\* Negating the inputs of the most recent update overflows nothing.
NegatableInput ==
    /\ \A i \in 0..3 : call.in.rcCommand[i] # -32768
    /\ \A i \in Axes : call.in.gyroADC[i] # -32768

\* The outcome of computeLevelPid on the mirror image of the most recent
\* update: the fields the update found, negated, with its inputs negated.
MirrorLevel(axis) ==
    computeLevelPid([lastGyro    |-> -call.pre.lastGyro[axis],
                     delta1      |-> -call.pre.delta1[axis],
                     delta2      |-> -call.pre.delta2[axis],
                     errorGyroI  |-> -call.pre.errorGyroI[axis],
                     errorAngleI |-> -call.pre.errorAngleI[axis]],
                    NegArr(call.in.rcCommand), NegArr(call.in.gyroADC),
                    NegArr(call.in.eulerAngles), axis, pidConfig, imuConfig)

\* The yaw rate integral and the yaw correction of the mirror image.
MirrorYawI ==
    NextErrorGyroI(-call.pre.errorGyroI[AXIS_YAW], pidConfig.yawP,
                   NegArr(call.in.rcCommand), NegArr(call.in.gyroADC), AXIS_YAW)

MirrorYaw ==
    YawPid(MirrorYawI, NegArr(call.in.rcCommand), NegArr(call.in.gyroADC),
           pidConfig)

IsMirrorableUpdate ==
    /\ IsUpdateCall
    /\ pidConfig.softwareTrim = Arr3(0, 0, 0)
    /\ NegatableInput

\* The next state of the mirror image is the negated next state.
MirrorStateNegated ==
    /\ \A axis \in LevelAxes :
          /\ MirrorLevel(axis).lastGyro = -lastGyro[axis]
          /\ MirrorLevel(axis).delta1 = -delta1[axis]
          /\ MirrorLevel(axis).delta2 = -delta2[axis]
          /\ MirrorLevel(axis).errorGyroI = -errorGyroI[axis]
          /\ MirrorLevel(axis).errorAngleI = -errorAngleI[axis]
    /\ MirrorYawI = -errorGyroI[AXIS_YAW]

=============================================================================
